---- MODULE Spec2Model ----
(***************************************************************************)
(* Model of the recommendation engine in src/core/engine.py (BookStore)    *)
(* and src/core/models.py (User, Book).                                    *)
(*                                                                         *)
(* State: the catalog, the profiles with their purchase sets, the inverted *)
(* index book_subscribers and the co_occurrence_matrix, plus the outcome   *)
(* of the last call (ret).  Every public method of BookStore is one        *)
(* action.  A KeyError escaping a method is the outcome raised = TRUE.     *)
(* Titles, genres and profile names are opaque strings that no decision    *)
(* reads and are left out; save_data only writes the state to disk.        *)
(*                                                                         *)
(* budget bounds the explored runs: it counts the state-changing calls     *)
(* still to be made.  A call that leaves the store unchanged (a query, a   *)
(* refused purchase) ends the explored run with budget = -1, since every   *)
(* call after it would meet the store it met before.                       *)
(*                                                                         *)
(* Python leaves the iteration order of a set unspecified, and a stable    *)
(* sort keeps that order among equal keys: recommend_books takes the       *)
(* iteration orders as inputs, drawn from IterOrders.                      *)
(***************************************************************************)
EXTENDS Integers, Sequences, FiniteSets, TLC

VARIABLES books, users, book_subscribers, co_occurrence_matrix, ret, budget

vars == <<books, users, book_subscribers, co_occurrence_matrix, ret, budget>>

(* ------------------------------ bounds --------------------------------- *)
\* item ids 1..LoadBooks appear in the loaded files of the small stores
LoadBooks == 3
\* state-changing calls (purchase, register, add) made on a small store
MaxCalls == 2
\* item ids 1..CrowdBooks appear in the loaded files of the crowded stores
CrowdBooks == 8
\* number of profiles with identical histories in a crowded store
CrowdClones == 6

(* ------------------------- program constants --------------------------- *)
\* max(self.users.keys(), default=100)
UserIdFloor == 100
\* max(self.books.keys(), default=0)
BookIdFloor == 0
\* scored_neighbors[:5], sorted_ub_ids[:5], len(results) >= 5, sorted_pop[:5]
TopK == 5
\* sorted_assoc[:3], sorted_items[:3]
PhaseQuota == 3
\* twins[:2]
TwinQuota == 2

(* ------------------------------ helpers -------------------------------- *)
Min(a, b) == IF a < b THEN a ELSE b

Max(a, b) == IF a > b THEN a ELSE b

\* max(keys, default=d)
SetMax(S, d) ==
    IF S = {} THEN d
    ELSE LET x == CHOOSE x \in S : \A y \in S : y <= x IN x

\* seq[:n]
Take(seq, n) == SubSeq(seq, 1, Min(n, Len(seq)))

Range(seq) == {seq[i] : i \in 1..Len(seq)}

\* dict.get(k, d)
Get(d, k, default) == IF k \in DOMAIN d THEN d[k] ELSE default

\* d[k] = v on a dict d
Put(d, k, v) == (k :> v) @@ d

EmptyDict == <<>>

RECURSIVE SeqByRank(_, _)
\* the elements of S in iteration order, rank[x] being x's position
SeqByRank(S, rank) ==
    IF S = {} THEN <<>>
    ELSE LET x == CHOOSE x \in S : \A y \in S : rank[x] <= rank[y]
         IN  <<x>> \o SeqByRank(S \ {x}, rank)

RECURSIVE Dedup(_)
\* keys of a dict in insertion order, given the sequence of insertions
Dedup(seq) ==
    IF Len(seq) = 0 THEN <<>>
    ELSE LET front == Dedup(SubSeq(seq, 1, Len(seq) - 1))
             last  == seq[Len(seq)]
         IN  IF last \in Range(front) THEN front ELSE Append(front, last)

RECURSIVE Flatten(_)
Flatten(seqs) ==
    IF Len(seqs) = 0 THEN <<>> ELSE Head(seqs) \o Flatten(Tail(seqs))

RECURSIVE SortIdx(_, _, _)
SortIdx(I, seq, key) ==
    IF I = {} THEN <<>>
    ELSE LET i == CHOOSE i \in I : \A j \in I :
                     \/ key[seq[i]] > key[seq[j]]
                     \/ key[seq[i]] = key[seq[j]] /\ i <= j
         IN  <<seq[i]>> \o SortIdx(I \ {i}, seq, key)

\* sorted(seq, key=..., reverse=True): stable, descending
StableSortDesc(seq, key) == SortIdx(DOMAIN seq, seq, key)

RECURSIVE SumOver(_, _)
SumOver(S, f) ==
    IF S = {} THEN 0
    ELSE LET x == CHOOSE x \in S : TRUE IN f[x] + SumOver(S \ {x}, f)

(* --------------------------- core/models.py ---------------------------- *)
\* mutant: the history is overwritten instead of extended
User_add_book_Replace(purchased_books, book_id) == {book_id}

\* User.add_book: self.purchased_books.add(int(book_id))
User_add_book(purchased_books, book_id) == purchased_books \cup {book_id}

(* --------------------------- core/engine.py ---------------------------- *)
\* mutant: the subscriber set is overwritten instead of extended
add_to_index_Replace(index, user_id, book_id) == Put(index, book_id, {user_id})

\* BookStore._add_to_index
add_to_index(index, user_id, book_id) ==
    LET entry == IF book_id \notin DOMAIN index THEN {} ELSE index[book_id]
    IN  Put(index, book_id, entry \cup {user_id})

\* mutant: only the direction A -> B of each pair is counted
update_associations_OneWay(matrix, user_history_set) ==
    LET paired == IF Cardinality(user_history_set) > 1 THEN user_history_set ELSE {}
        row(a) == IF a \notin DOMAIN matrix THEN EmptyDict ELSE matrix[a]
        partners(a) == IF a \in paired THEN {b \in paired : b > a} ELSE {}
    IN  [a \in DOMAIN matrix \cup {a \in paired : partners(a) # {}} |->
           [b \in DOMAIN row(a) \cup partners(a) |->
              Get(row(a), b, 0) + (IF b \in partners(a) THEN 1 ELSE 0)]]

\* mutant: the inner loop starts at i instead of i + 1, pairing each item
\* with itself as well
update_associations_SelfPair(matrix, user_history_set) ==
    LET paired == IF Cardinality(user_history_set) > 1 THEN user_history_set ELSE {}
        row(a) == IF a \notin DOMAIN matrix THEN EmptyDict ELSE matrix[a]
        partners(a) == IF a \in paired THEN paired ELSE {}
    IN  [a \in DOMAIN matrix \cup paired |->
           [b \in DOMAIN row(a) \cup partners(a) |->
              Get(row(a), b, 0) + (IF b \in partners(a) THEN 1 ELSE 0)]]

\* BookStore._update_associations: the double loop visits every unordered
\* pair {book_a, book_b} of the list once and adds 1 to matrix[book_a][book_b]
\* and to matrix[book_b][book_a], creating rows and entries on first use
update_associations(matrix, user_history_set) ==
    LET paired == IF Cardinality(user_history_set) > 1 THEN user_history_set ELSE {}
        row(a) == IF a \notin DOMAIN matrix THEN EmptyDict ELSE matrix[a]
        partners(a) == IF a \in paired THEN paired \ {a} ELSE {}
    IN  [a \in DOMAIN matrix \cup paired |->
           [b \in DOMAIN row(a) \cup partners(a) |->
              Get(row(a), b, 0) + (IF b \in partners(a) THEN 1 ELSE 0)]]

RECURSIVE AddAll(_, _)
\* load_data, part B: new_user.add_book for every id of the purchase list
AddAll(purchased_books, list) ==
    IF list = {} THEN purchased_books
    ELSE LET b == CHOOSE b \in list : TRUE
         IN  AddAll(User_add_book(purchased_books, b), list \ {b})

RECURSIVE IndexAll(_, _)
\* load_data, part B: _add_to_index for every purchase of every loaded user
IndexAll(index, purchases) ==
    IF purchases = {} THEN index
    ELSE LET p == CHOOSE p \in purchases : TRUE
         IN  IndexAll(add_to_index(index, p[1], p[2]), purchases \ {p})

RECURSIVE TrainAll(_, _, _)
\* load_data, part C: _update_associations for every user with > 1 purchase
TrainAll(matrix, us, ids) ==
    IF ids = {} THEN matrix
    ELSE LET u == CHOOSE u \in ids : TRUE
             m == IF Cardinality(us[u]) > 1
                    THEN update_associations(matrix, us[u]) ELSE matrix
         IN  TrainAll(m, us, ids \ {u})

\* what a call leaves in ret
Outcome(op, user, book, value, raised, results) ==
    [op |-> op, user |-> user, book |-> book, value |-> value,
     raised |-> raised, results |-> results]

\* BookStore.__init__ / load_data on a book file and a user file
load_data(book_file, user_file, calls) ==
    /\ books = book_file
    /\ users = [u \in DOMAIN user_file |-> AddAll({}, user_file[u])]
    /\ book_subscribers =
         IndexAll(EmptyDict, {p \in (DOMAIN user_file) \X (UNION {user_file[u] : u \in DOMAIN user_file}) :
                                p[2] \in user_file[p[1]]})
    /\ co_occurrence_matrix = TrainAll(EmptyDict, users, DOMAIN users)
    /\ ret = Outcome("load_data", 0, 0, 0, FALSE, <<>>)
    /\ budget = calls

\* mutant: the "+ 1" is forgotten and the largest id is handed out again
NewId_Last(keys, floor) == SetMax(keys, floor)

\* max(keys, default=floor) + 1
NewId(keys, floor) == SetMax(keys, floor) + 1

\* BookStore.register_user
register_user ==
    /\ budget > 0
    /\ LET new_id == NewId(DOMAIN users, UserIdFloor)
       IN  /\ users' = Put(users, new_id, {})
           /\ ret' = Outcome("register_user", new_id, 0, new_id, FALSE, <<>>)
    /\ budget' = budget - 1
    /\ UNCHANGED <<books, book_subscribers, co_occurrence_matrix>>

\* BookStore.add_book
add_book(author) ==
    /\ budget > 0
    /\ LET new_id == NewId(DOMAIN books, BookIdFloor)
       IN  /\ books' = Put(books, new_id, author)
           /\ ret' = Outcome("add_book", 0, new_id, new_id, FALSE, <<>>)
    /\ budget' = budget - 1
    /\ UNCHANGED <<users, book_subscribers, co_occurrence_matrix>>

\* mutant: the item id is not looked up in the catalog
PurchaseAccepted_UserOnly(user_id, book_id) == user_id \in DOMAIN users

\* the guard of purchase_book
PurchaseAccepted(user_id, book_id) ==
    user_id \in DOMAIN users /\ book_id \in DOMAIN books

\* BookStore.purchase_book
purchase_book(user_id, book_id) ==
    IF PurchaseAccepted(user_id, book_id)
    THEN /\ budget > 0
         /\ users' = [users EXCEPT ![user_id] = User_add_book(@, book_id)]
         /\ book_subscribers' = add_to_index(book_subscribers, user_id, book_id)
         /\ co_occurrence_matrix' =
              update_associations(co_occurrence_matrix, users'[user_id])
         /\ ret' = Outcome("purchase_book", user_id, book_id, TRUE, FALSE, <<>>)
         /\ budget' = budget - 1
         /\ UNCHANGED books
    ELSE /\ budget >= 0
         /\ ret' = Outcome("purchase_book", user_id, book_id, FALSE, FALSE, <<>>)
         /\ budget' = -1
         /\ UNCHANGED <<books, users, book_subscribers, co_occurrence_matrix>>

(* ----------------------- recommendation cascade ------------------------ *)
RECURSIVE Gcd(_, _)
Gcd(a, b) == IF b = 0 THEN a ELSE Gcd(b, a % b)

RECURSIVE Lcm1To(_)
Lcm1To(n) == IF n <= 1 THEN 1 ELSE (Lcm1To(n - 1) * n) \div Gcd(Lcm1To(n - 1), n)

\* every id that occurs anywhere in the store
KnownBooks ==
    DOMAIN books \cup DOMAIN book_subscribers \cup DOMAIN co_occurrence_matrix
      \cup UNION {users[u] : u \in DOMAIN users}

KnownUsers ==
    DOMAIN users \cup UNION {book_subscribers[b] : b \in DOMAIN book_subscribers}

\* A ratio intersection / union is kept as the integer ratio * Scale; Scale
\* is a multiple of every possible union size, so the division is exact and
\* comparing or adding scaled values compares or adds the ratios.  (Floats
\* of equal ratios are equal; sums of floats that differ from the exact sum
\* by rounding can only reorder items whose exact scores are equal.)
Scale == Lcm1To(Max(Max(LoadBooks, CrowdBooks), CrowdClones + 3)
                  + MaxCalls)

\* intersection / union, 0.0 when union == 0
Ratio(set_a, set_b) ==
    LET intersection == Cardinality(set_a \cap set_b)
        union        == Cardinality(set_a \cup set_b)
    IN  IF union = 0 THEN 0 ELSE (intersection * Scale) \div union

\* BookStore.calculate_jaccard_similarity
calculate_jaccard_similarity(user1, user2) == Ratio(users[user1], users[user2])

\* score of other_id in get_similar_items(target_book_id)
ItemScore(target_book_id, other_id) ==
    Ratio(book_subscribers[target_book_id], book_subscribers[other_id])

\* BookStore.get_similar_items: the ids of the returned (id, score) pairs
get_similar_items(target_book_id, rank) ==
    IF target_book_id \notin DOMAIN book_subscribers THEN <<>>
    ELSE LET others == SeqByRank(DOMAIN book_subscribers \ {target_book_id}, rank)
             score  == [o \in Range(others) |-> ItemScore(target_book_id, o)]
             scores == SelectSeq(others, LAMBDA o : score[o] > 0)
         IN  StableSortDesc(scores, score)

\* the iteration order of a set or dict of ids: ascending ids rotated by
\* order (hash slot order of small ints), or descending ids for order = -1
IterRank(ids, order) ==
    LET m == SetMax(ids, 0) + 1
    IN  [x \in ids |-> IF order < 0 THEN m - x ELSE (x + order) % m]

\* mutant: items the target owns are not filtered out
Eligible_IgnoreOwned(bid, purchased, recommended_ids) == bid \notin recommended_ids

\* mutant: the dedup set is not consulted
Eligible_IgnoreRecommended(bid, purchased, recommended_ids) == bid \notin purchased

\* "partner_id not in target_user.purchased_books and partner_id not in recommended_ids"
Eligible(bid, purchased, recommended_ids) ==
    bid \notin purchased /\ bid \notin recommended_ids

\* mutant: the loops never break
Remaining_NoBreak(count) == TopK

\* how many results the loop "if len(results) >= 5: break" still appends
Remaining(count) == Max(TopK - count, 0)

PhaseResult(raised, ids) == [raised |-> raised, ids |-> ids]

\* phase 1, user-based collaborative filtering
Phase1(target, bo, uo) ==
    LET purchased == users[target]
        candidate_ids ==
            UNION {Get(book_subscribers, b, {}) : b \in purchased} \ {target}
        found == candidate_ids \cap DOMAIN users
        sim == [nid \in found |-> calculate_jaccard_similarity(target, nid)]
        scored_neighbors ==
            StableSortDesc(SelectSeq(SeqByRank(found, uo), LAMBDA n : sim[n] > 0), sim)
        top == Take(scored_neighbors, TopK)
        keys == Dedup(Flatten([i \in DOMAIN top |->
                                 SeqByRank(users[top[i]] \ purchased, bo)]))
        book_scores == [bid \in Range(keys) |->
                          SumOver({n \in Range(top) : bid \in users[n]}, sim)]
        sorted_ub_ids == StableSortDesc(keys, book_scores)
    IN  PhaseResult(
          \* self.users[nid], self.books[bid].title for bid in shared
          \/ candidate_ids # found
          \/ \E i \in DOMAIN top :
               (purchased \cap users[top[i]]) \ DOMAIN books # {},
          SelectSeq(Take(sorted_ub_ids, TopK), LAMBDA bid : bid \in DOMAIN books))

\* phase 2, association rules
Phase2(target, bo, io, recommended, count) ==
    LET purchased == users[target]
        mine == SeqByRank(purchased, bo)
        partners == [my_bid \in purchased |->
            IF my_bid \in DOMAIN co_occurrence_matrix
            THEN SelectSeq(SeqByRank(DOMAIN co_occurrence_matrix[my_bid], io),
                           LAMBDA p : Eligible(p, purchased, recommended))
            ELSE <<>>]
        keys == Dedup(Flatten([i \in DOMAIN mine |-> partners[mine[i]]]))
        assoc_scores == [bid \in Range(keys) |->
            SumOver({my \in purchased \cap DOMAIN co_occurrence_matrix :
                       bid \in DOMAIN co_occurrence_matrix[my]},
                    [my \in purchased \cap DOMAIN co_occurrence_matrix |->
                       Get(co_occurrence_matrix[my], bid, 0)])]
        sorted_assoc == StableSortDesc(keys, assoc_scores)
        emitted == Take(Take(sorted_assoc, PhaseQuota), Remaining(count))
    IN  PhaseResult(
          \* self.books[my_bid].title, self.books[bid]
          \/ \E my \in purchased \ DOMAIN books : Len(partners[my]) > 0
          \/ Range(emitted) \ DOMAIN books # {},
          emitted)

\* phase 3, item-based collaborative filtering
Phase3(target, bo, io, recommended, count) ==
    LET purchased == users[target]
        mine == SeqByRank(purchased, bo)
        twins == [my_bid \in purchased |->
            SelectSeq(Take(get_similar_items(my_bid, io), TwinQuota),
                      LAMBDA t : Eligible(t, purchased, recommended))]
        \* the (my_bid, twin_id) pairs in the order the loops reach them
        hits == Flatten([i \in DOMAIN mine |->
                           [j \in DOMAIN twins[mine[i]] |->
                              <<mine[i], twins[mine[i]][j]>>]])
        score == [k \in DOMAIN hits |-> ItemScore(hits[k][1], hits[k][2])]
        \* item_scores[twin_id]['score'] when hit k is reached
        before(k) == SetMax({score[j] : j \in {j \in 1..(k - 1) : hits[j][2] = hits[k][2]}}, 0)
        keys == Dedup([k \in DOMAIN hits |-> hits[k][2]])
        item_scores == [bid \in Range(keys) |->
            SetMax({score[k] : k \in {k \in DOMAIN hits : hits[k][2] = bid}}, 0)]
        sorted_items == StableSortDesc(keys, item_scores)
        emitted == Take(Take(sorted_items, PhaseQuota), Remaining(count))
    IN  PhaseResult(
          \* self.books[my_bid].title, self.books[bid]
          \/ \E k \in DOMAIN hits :
               score[k] > before(k) /\ hits[k][1] \notin DOMAIN books
          \/ Range(emitted) \ DOMAIN books # {},
          emitted)

\* phase 4, content-based: the catalog is scanned in insertion order, which
\* is ascending id (load order of a saved file, then add_book's max + 1)
Phase4(target, recommended, count) ==
    LET purchased == users[target]
        liked_authors == {books[bid] : bid \in purchased \cap DOMAIN books}
        catalog == SeqByRank(DOMAIN books, [b \in DOMAIN books |-> b])
        matching == SelectSeq(catalog, LAMBDA b :
                       /\ Eligible(b, purchased, recommended)
                       /\ books[b] \in liked_authors)
    IN  PhaseResult(FALSE, Take(matching, Remaining(count)))

\* phase 5, global popularity
Phase5(target, bo) ==
    LET purchased == users[target]
        profiles == SeqByRank(DOMAIN users, [u \in DOMAIN users |-> u])
        keys == Dedup(Flatten([i \in DOMAIN profiles |->
                                 SeqByRank(users[profiles[i]], bo)]))
        pop_map == [pid \in Range(keys) |->
                      Cardinality({u \in DOMAIN users : pid \in users[u]})]
        sorted_pop == StableSortDesc(keys, pop_map)
        emitted == SelectSeq(Take(sorted_pop, TopK), LAMBDA bid : bid \notin purchased)
    IN  PhaseResult(Range(emitted) \ DOMAIN books # {}, emitted)

Tag(ids, phase) == [i \in DOMAIN ids |-> [book |-> ids[i], phase |-> phase]]

\* results and recommended_ids after a phase; raised once a KeyError escaped
Extend(acc, p, phase) ==
    [raised |-> p.raised, ids |-> acc.ids \o p.ids,
     results |-> acc.results \o Tag(p.ids, phase)]

\* "if len(results) < 5 and target_user.purchased_books"
PhaseRuns(target, acc) == Len(acc.ids) < TopK /\ users[target] # {}

After1(target, bo, uo) ==
    Extend([raised |-> FALSE, ids |-> <<>>, results |-> <<>>],
           Phase1(target, bo, uo), 1)

After2(target, bo, io, acc) ==
    IF acc.raised \/ ~PhaseRuns(target, acc) THEN acc
    ELSE Extend(acc, Phase2(target, bo, io, Range(acc.ids), Len(acc.ids)), 2)

After3(target, bo, io, acc) ==
    IF acc.raised \/ ~PhaseRuns(target, acc) THEN acc
    ELSE Extend(acc, Phase3(target, bo, io, Range(acc.ids), Len(acc.ids)), 3)

After4(target, acc) ==
    IF acc.raised \/ ~PhaseRuns(target, acc) THEN acc
    ELSE Extend(acc, Phase4(target, Range(acc.ids), Len(acc.ids)), 4)

\* "if not results"
After5(target, bo, acc) ==
    IF acc.raised \/ Len(acc.ids) > 0 THEN acc
    ELSE Extend(acc, Phase5(target, bo), 5)

Returned(acc) ==
    IF acc.raised THEN [raised |-> TRUE, results |-> <<>>]
    ELSE [raised |-> FALSE, results |-> acc.results]

\* BookStore.recommend_books; bo, uo: iteration order of the sets of item
\* and profile ids, io: iteration order of the dicts keyed by item id
recommend_books(target_user_id, bo, uo, io) ==
    IF target_user_id \notin DOMAIN users THEN [raised |-> FALSE, results |-> <<>>]
    ELSE Returned(
           After5(target_user_id, bo,
             After4(target_user_id,
               After3(target_user_id, bo, io,
                 After2(target_user_id, bo, io,
                   After1(target_user_id, bo, uo))))))

\* the iteration orders a call may meet
IterOrders == {-1, 0}

\* a call of recommend_books
Recommend(target_user_id, so, d) ==
    /\ budget >= 0
    /\ LET r == recommend_books(target_user_id, IterRank(KnownBooks, so),
                                IterRank(KnownUsers, so), IterRank(KnownBooks, d))
       IN  ret' = Outcome("recommend_books", target_user_id, 0, 0, r.raised, r.results)
    /\ budget' = -1
    /\ UNCHANGED <<books, users, book_subscribers, co_occurrence_matrix>>

(* ------------------------------ loaded files --------------------------- *)
\* author names
Authors == {"Herbert", "Asimov"}

\* the author of item b in a loaded book file
FileAuthor(b) == IF b % 2 = 1 THEN "Herbert" ELSE "Asimov"

BookFile(n) == [b \in 1..n |-> FileAuthor(b)]

\* small stores: no profile, or two profiles owning the items 1..k1 and
\* 1..k2; the catalog holds the items 1..nb, so an owned item above nb is
\* a stale reference
SmallUserFiles ==
    {<<>>} \cup {(UserIdFloor + 1 :> 1..k[1]) @@ (UserIdFloor + 2 :> 1..k[2]) :
                   k \in {k \in (0..LoadBooks) \X (0..LoadBooks) : k[1] <= k[2]}}

\* crowded stores: CrowdClones profiles own {c, c+1}, one owns 1..c, one
\* owns c+1..CrowdBooks and the last one owns nothing
CrowdUserFile(c) ==
    [u \in (UserIdFloor + 1)..(UserIdFloor + CrowdClones + 3) |->
        IF u <= UserIdFloor + CrowdClones THEN {c, c + 1}
        ELSE IF u = UserIdFloor + CrowdClones + 1 THEN 1..c
        ELSE IF u = UserIdFloor + CrowdClones + 2 THEN (c + 1)..CrowdBooks
        ELSE {}]

InitSmall ==
    \E nb \in {0, LoadBooks - 1, LoadBooks} : \E uf \in SmallUserFiles :
        load_data(BookFile(nb), uf, MaxCalls)

\* crowded stores are only queried
InitCrowd ==
    \E nb \in {CrowdBooks - 1, CrowdBooks} : \E c \in 1..(CrowdBooks - 1) :
        load_data(BookFile(nb), CrowdUserFile(c), 0)

Init == InitSmall \/ InitCrowd

UserInputs == DOMAIN users \cup {SetMax(DOMAIN users, UserIdFloor) + 1}

BookInputs == 1..(SetMax(KnownBooks, BookIdFloor) + 1)

Next ==
    \/ \E u \in UserInputs : \E b \in BookInputs : purchase_book(u, b)
    \/ register_user
    \/ \E a \in Authors : add_book(a)
    \/ \E u \in UserInputs : \E so \in IterOrders : \E d \in IterOrders :
         Recommend(u, so, d)

Spec == Init /\ [][Next]_vars

(* ------------------------------- claims -------------------------------- *)
\* self.co_occurrence_matrix[i][j], 0 when the row or the entry is absent
Count(i, j) == Get(Get(co_occurrence_matrix, i, EmptyDict), j, 0)

\* j is a key of co_occurrence_matrix[i]
HasEntry(i, j) == j \in DOMAIN Get(co_occurrence_matrix, i, EmptyDict)

\* the profiles whose purchase set holds every item of S
Owners(S) == {u \in DOMAIN users : S \subseteq users[u]}

Purchased == ret.op = "purchase_book" /\ ret.value = TRUE

Queried == ret.op = "recommend_books" /\ ret.user \in DOMAIN users

\* the phases that contributed to the returned sequence
Phases == {ret.results[i].phase : i \in DOMAIN ret.results}

\* some purchase set holds an item id that is absent from the catalog
StaleState == \E u \in DOMAIN users : users[u] \ DOMAIN books # {}

\* C1: for every profile p and item i, i is in p's purchase set exactly when
\* p's id is in book_subscribers[i], an absent entry counting as empty.
InvertedIndexConsistent ==
    \A u \in DOMAIN users : \A i \in KnownBooks :
        i \in users[u] <=> u \in Get(book_subscribers, i, {})

\* C1 witness: a purchase has just added a second subscriber to an item
IndexedPurchase ==
    /\ Purchased
    /\ Cardinality(users[ret.user]) >= 2
    /\ Cardinality(Get(book_subscribers, ret.book, {})) >= 2

\* C2 (as claimed): for all distinct items i, j the stored count equals the
\* number of profiles whose purchase set holds both i and j.
CoOccurrenceCountExact ==
    \A i \in KnownBooks : \A j \in KnownBooks \ {i} :
        Count(i, j) = Cardinality(Owners({i, j}))

\* C3: for all distinct items i, j the count i -> j equals the count j -> i,
\* and an entry exists in one direction exactly when it exists in the other.
CoOccurrenceSymmetric ==
    \A i \in KnownBooks : \A j \in KnownBooks \ {i} :
        /\ Count(i, j) = Count(j, i)
        /\ HasEntry(i, j) <=> HasEntry(j, i)

\* C3 witness: after a purchase some pair has been counted more than once
CountedTwice ==
    /\ Purchased
    /\ \E i \in KnownBooks : \E j \in KnownBooks \ {i} : Count(i, j) >= 2

\* C4: the sequence returned by recommend_books has length at most 5.
RecommendationCap == ret.op = "recommend_books" => Len(ret.results) <= TopK

\* C4 witness: a full result to which three phases contributed
FullCascade ==
    /\ Queried
    /\ Len(ret.results) = TopK
    /\ Cardinality(Phases) >= 3

\* C5: no returned item is a member of the target's purchase set.
NoSelfRecommendation ==
    Queried => \A i \in DOMAIN ret.results : ret.results[i].book \notin users[ret.user]

\* C5 witness: a target that owns items gets results of phases 2 and 3
OwnerGetsAssociations ==
    /\ Queried
    /\ Cardinality(users[ret.user]) >= 2
    /\ {2, 3} \subseteq Phases

\* C6: the item ids of one returned sequence are pairwise distinct.
NoDuplicates ==
    ret.op = "recommend_books" =>
        \A i \in DOMAIN ret.results : \A j \in DOMAIN ret.results :
            i # j => ret.results[i].book # ret.results[j].book

\* C6 witness: the content phase adds to the results of earlier phases
LaterPhaseAdds ==
    /\ Queried
    /\ 4 \in Phases
    /\ Phases \cap {1, 2, 3} # {}

\* C7: purchase_book with an unknown profile or item id returns False and
\* leaves the purchase sets, the index and the matrix unchanged;
\* recommend_books with an unknown profile id returns the empty sequence;
\* neither raises.
NotFoundHandled ==
    [][/\ (/\ ret'.op = "purchase_book"
           /\ ret'.user \notin DOMAIN users \/ ret'.book \notin DOMAIN books)
          => /\ ret'.value = FALSE
             /\ ~ret'.raised
             /\ UNCHANGED <<users, book_subscribers, co_occurrence_matrix>>
       /\ (ret'.op = "recommend_books" /\ ret'.user \notin DOMAIN users)
          => ret'.results = <<>> /\ ~ret'.raised]_vars

\* C7 witness: a profile with purchases was refused an item the catalog lacks
RefusedPurchase ==
    /\ ret.op = "purchase_book"
    /\ ret.value = FALSE
    /\ ret.user \in DOMAIN users
    /\ users[ret.user] # {}
    /\ ret.book \notin DOMAIN books

\* C8: purchase_book on a known profile p and a known item i returns True and
\* p's purchase set becomes its previous set plus i; no item is ever removed
\* from a purchase set, the other purchase sets and the catalog are unchanged.
PurchasePostcondition ==
    [][/\ (ret'.op = "purchase_book" /\ PurchaseAccepted(ret'.user, ret'.book))
          => /\ ret'.value = TRUE
             /\ users' = [users EXCEPT ![ret'.user] = @ \cup {ret'.book}]
             /\ books' = books
       /\ \A u \in DOMAIN users : u \in DOMAIN users' /\ users[u] \subseteq users'[u]]_vars

\* C8 witness: a second accepted call was a purchase that grew a history
SecondPurchase ==
    /\ Purchased
    /\ budget = 0
    /\ Cardinality(users[ret.user]) >= 2
    /\ \E u \in DOMAIN users \ {ret.user} : users[u] # {}

\* C9 (as claimed): when some purchase set holds an item absent from the
\* catalog, recommend_books returns for every known profile without raising,
\* and no absent item is returned.
StaleReferenceTolerated ==
    (Queried /\ StaleState) =>
        /\ ~ret.raised
        /\ \A i \in DOMAIN ret.results : ret.results[i].book \in DOMAIN books

\* global purchase count of an item
Popularity(b) == Cardinality(Owners({b}))

\* C10 (as claimed): for a known profile with an empty purchase set and a
\* non-empty catalog, recommend_books returns the popularity ranking: counts
\* non-increasing, every returned item counted at least as often as every
\* catalog item left out, nothing from phases 1 to 4.
ColdStartRanking ==
    (Queried /\ users[ret.user] = {} /\ DOMAIN books # {}) =>
        /\ ~ret.raised
        /\ Phases \subseteq {5}
        /\ \A i \in DOMAIN ret.results : \A j \in DOMAIN ret.results :
             i < j => Popularity(ret.results[i].book) >= Popularity(ret.results[j].book)
        /\ \A i \in DOMAIN ret.results :
             \A b \in DOMAIN books \ {ret.results[k].book : k \in DOMAIN ret.results} :
                Popularity(ret.results[i].book) >= Popularity(b)

\* the item ids of the returned sequence
ResultBooks == {ret.results[i].book : i \in DOMAIN ret.results}

\* the item ids one phase contributed, in the order returned
PhaseBooks(phase) ==
    LET part == SelectSeq(ret.results, LAMBDA r : r.phase = phase)
    IN  [i \in DOMAIN part |-> part[i].book]

\* the other profiles that share an item with profile t
Neighbours(t) == {u \in DOMAIN users \ {t} : users[u] \cap users[t] # {}}

\* the catalog items the neighbours of t own and t does not
Unseen(t) ==
    (UNION {users[u] : u \in Neighbours(t)} \ users[t]) \cap DOMAIN books

\* C11 (as claimed): when the target has between 1 and 5 neighbours and they
\* own at most 5 catalog items the target does not own, recommend_books
\* returns every one of those items.
UserBasedInclusion ==
    (/\ Queried
     /\ Cardinality(Neighbours(ret.user)) \in 1..TopK
     /\ Cardinality(Unseen(ret.user)) <= TopK)
    => Unseen(ret.user) \subseteq ResultBooks

\* C12: register_user returns an id greater than every existing profile id
\* (101 when there is none), add_book an id greater than every existing item
\* id (1 when the catalog is empty); both keep every existing profile and
\* item with its purchase set and leave the index and the matrix unchanged.
IdAllocation ==
    [][/\ ret'.op = "register_user"
          => /\ \A u \in DOMAIN users : ret'.value > u
             /\ DOMAIN users = {} => ret'.value = UserIdFloor + 1
             /\ DOMAIN users' = DOMAIN users \cup {ret'.value}
             /\ \A u \in DOMAIN users : users'[u] = users[u]
             /\ UNCHANGED <<books, book_subscribers, co_occurrence_matrix>>
       /\ ret'.op = "add_book"
          => /\ \A b \in DOMAIN books : ret'.value > b
             /\ DOMAIN books = {} => ret'.value = BookIdFloor + 1
             /\ DOMAIN books' = DOMAIN books \cup {ret'.value}
             /\ \A b \in DOMAIN books : books'[b] = books[b]
             /\ UNCHANGED <<users, book_subscribers, co_occurrence_matrix>>]_vars

\* C12 witness: an item was added to a non-empty catalog after a profile was
\* registered next to profiles that hold counted purchases
AddedAfterRegistration ==
    /\ ret.op = "add_book"
    /\ ret.value > BookIdFloor + 1
    /\ UserIdFloor + 3 \in DOMAIN users
    /\ DOMAIN co_occurrence_matrix # {}

\* assoc_scores[b]['score'] for target t: the counts of b summed over the
\* items t owns
AssocScore(t, b) == SumOver(users[t], [my \in users[t] |-> Count(my, b)])

\* the co-occurrence partners of t's items that t does not own and that are
\* not in recommended
EligiblePartners(t, recommended) ==
    {b \in KnownBooks : /\ b \notin users[t]
                        /\ b \notin recommended
                        /\ \E my \in users[t] : HasEntry(my, b)}

\* C13 (as claimed): when the user-based phase emitted r < 5 results and the
\* target owns an item, the association phase emits exactly min(m, 5 - r) of
\* the m eligible partners, in descending accumulated count, none of the
\* partners left out having a larger count than an emitted one.
AssociationQuota ==
    (/\ Queried
     /\ ~ret.raised
     /\ Len(PhaseBooks(1)) < TopK
     /\ users[ret.user] # {})
    => LET t    == ret.user
           r    == Len(PhaseBooks(1))
           elig == EligiblePartners(t, Range(PhaseBooks(1)))
           out  == PhaseBooks(2)
       IN  /\ Len(out) = Min(Cardinality(elig), TopK - r)
           /\ Range(out) \subseteq elig
           /\ \A i \in DOMAIN out : \A j \in DOMAIN out :
                i < j => AssocScore(t, out[i]) >= AssocScore(t, out[j])
           /\ \A i \in DOMAIN out : \A b \in elig \ Range(out) :
                AssocScore(t, out[i]) >= AssocScore(t, b)

\* the catalog items profile t does not own
Unowned(t) == DOMAIN books \ users[t]

\* C14 (as claimed): when phases 1 to 4 produce nothing for a known profile,
\* recommend_books returns the 5 items of highest global purchase count among
\* the items the target does not own (all of them if there are fewer than
\* 5), in descending count; when an earlier phase produced a result, the
\* popularity phase adds nothing.
PopularityFallback ==
    (Queried /\ ~ret.raised) =>
        /\ Phases \cap {1, 2, 3, 4} # {} => 5 \notin Phases
        /\ Phases \cap {1, 2, 3, 4} = {} =>
             LET t   == ret.user
                 out == PhaseBooks(5)
             IN  /\ Len(out) = Min(Cardinality(Unowned(t)), TopK)
                 /\ Range(out) \subseteq Unowned(t)
                 /\ \A i \in DOMAIN out : \A j \in DOMAIN out :
                      i < j => Popularity(out[i]) >= Popularity(out[j])
                 /\ \A i \in DOMAIN out : \A b \in Unowned(t) \ Range(out) :
                      Popularity(out[i]) >= Popularity(b)

\* C15: the matrix holds no self-pair; every stored count is at least the
\* number of profiles that own both items; a count for (i, j) is positive
\* exactly when some profile owns both i and j.
CoOccurrenceSupport ==
    \A i \in KnownBooks :
        /\ ~HasEntry(i, i)
        /\ \A j \in KnownBooks \ {i} :
             /\ Count(i, j) >= Cardinality(Owners({i, j}))
             /\ Count(i, j) > 0 <=> Owners({i, j}) # {}
             /\ HasEntry(i, j) => Count(i, j) > 0

\* C15 witness: after a purchase one pair is counted more often than it is
\* owned while another pair of known items has no owner and no count
OvercountedAndAbsent ==
    /\ Purchased
    /\ \E i \in KnownBooks : \E j \in KnownBooks \ {i} :
         Count(i, j) > Cardinality(Owners({i, j}))
    /\ \E i \in KnownBooks : \E j \in KnownBooks \ {i} :
         Owners({i, j}) = {} /\ ~HasEntry(i, j)

====
